---- MODULE Spec2Model ----
(***************************************************************************)
(* Model of the Information Superiority Engine: the sqlite-backed pipeline *)
(* of karkas.py (DeduplicationEngine, ClassificationEngine, ...) and the   *)
(* postgres-backed HTTP service of api/app/main.py with its rule-based     *)
(* classification stub (application.py).                                   *)
(*                                                                         *)
(* A text is a sequence of one-character strings.                          *)
(***************************************************************************)
EXTENDS Naturals, Integers, Sequences, FiniteSets, TLC

(***************************************************************************)
(* Python str helpers                                                      *)
(***************************************************************************)
Lowercase ==
  <<"a","b","c","d","e","f","g","h","i","j","k","l","m",
    "n","o","p","q","r","s","t","u","v","w","x","y","z">>

Uppercase ==
  <<"A","B","C","D","E","F","G","H","I","J","K","L","M",
    "N","O","P","Q","R","S","T","U","V","W","X","Y","Z">>

\* the characters str.strip() removes
Whitespace == {" ", "\t", "\n"}

lower_char(c) ==
  IF \E i \in DOMAIN Uppercase : Uppercase[i] = c
    THEN Lowercase[CHOOSE i \in DOMAIN Uppercase : Uppercase[i] = c]
    ELSE c

\* str.lower()
lower(s) == [i \in 1..Len(s) |-> lower_char(s[i])]

\* a faulty strip: at most one whitespace character is dropped at each end
strip_one(s) ==
  LET from == IF Len(s) >= 1 /\ s[1] \in Whitespace THEN 2 ELSE 1
      to == IF Len(s) >= 2 /\ s[Len(s)] \in Whitespace
              THEN Len(s) - 1 ELSE Len(s)
  IN  SubSeq(s, from, to)

\* str.strip(): drop the leading and the trailing whitespace
strip(s) ==
  LET keep == {i \in 1..Len(s) : s[i] \notin Whitespace}
      Min(S) == CHOOSE x \in S : \A y \in S : x <= y
      Max(S) == CHOOSE x \in S : \A y \in S : x >= y
  IN  IF keep = {} THEN <<>> ELSE SubSeq(s, Min(keep), Max(keep))

\* a faulty `in`: the keyword is looked for at the start of the text only
contains_prefix_only(kw, text) ==
  Len(kw) <= Len(text) /\ SubSeq(text, 1, Len(kw)) = kw

\* the Python operator `kw in text` on strings
contains(kw, text) ==
  \E i \in 0..(Len(text) - Len(kw)) : SubSeq(text, i + 1, i + Len(kw)) = kw

(***************************************************************************)
(* difflib.SequenceMatcher(None, a, b).ratio()                             *)
(* Indexes are 1-based here; a range alo..ahi is half open as in difflib.  *)
(* The autojunk heuristic only acts on sequences of 200 elements or more   *)
(* and no junk predicate is given, so every element of b is matchable.     *)
(***************************************************************************)
RECURSIVE common_run(_, _, _, _, _, _)
\* length of the block a[i..] = b[j..] that starts at (i, j) inside the ranges
common_run(a, b, i, j, ahi, bhi) ==
  IF i >= ahi \/ j >= bhi THEN 0
  ELSE IF a[i] # b[j] THEN 0
  ELSE 1 + common_run(a, b, i + 1, j + 1, ahi, bhi)

\* <<i, j, k>>: the longest matching block in a[alo..ahi) and b[blo..bhi);
\* of the longest ones that which starts earliest in a, then earliest in b;
\* <<alo, blo, 0>> when nothing matches
find_longest_match(a, b, alo, ahi, blo, bhi) ==
  LET starts == (alo..(ahi - 1)) \X (blo..(bhi - 1))
      run == [p \in starts |-> common_run(a, b, p[1], p[2], ahi, bhi)]
      sizes == {run[p] : p \in starts}
      best == IF starts = {} THEN 0
              ELSE CHOOSE k \in sizes : \A m \in sizes : m <= k
      longest == {p \in starts : run[p] = best}
      first == CHOOSE p \in longest :
                 \A q \in longest : p[1] < q[1] \/ (p[1] = q[1] /\ p[2] <= q[2])
  IN  IF best = 0 THEN <<alo, blo, 0>> ELSE <<first[1], first[2], best>>

RECURSIVE matching_size(_, _, _, _, _, _)
\* sum of the sizes of get_matching_blocks() over a[alo..ahi), b[blo..bhi)
matching_size(a, b, alo, ahi, blo, bhi) ==
  LET m == find_longest_match(a, b, alo, ahi, blo, bhi)
      i == m[1]
      j == m[2]
      k == m[3]
  IN  IF k = 0 THEN 0
      ELSE k
           + (IF alo < i /\ blo < j
                THEN matching_size(a, b, alo, i, blo, j) ELSE 0)
           + (IF i + k < ahi /\ j + k < bhi
                THEN matching_size(a, b, i + k, ahi, j + k, bhi) ELSE 0)

\* number of matched characters, the M of ratio() = 2.0 * M / T
matches(a, b) == matching_size(a, b, 1, Len(a) + 1, 1, Len(b) + 1)

\* a faulty ratio: M / T, the factor 2 of 2.0 * M / T left out
ratio_without_factor(a, b) ==
  IF Len(a) + Len(b) = 0 THEN <<1, 1>>
  ELSE <<matches(a, b), Len(a) + Len(b)>>

\* ratio() as the exact fraction <<numerator, denominator>>;
\* _calculate_ratio returns 1.0 when both sequences are empty
ratio(a, b) ==
  IF Len(a) + Len(b) = 0 THEN <<1, 1>>
  ELSE <<2 * matches(a, b), Len(a) + Len(b)>>

\* the threshold test with >= for >
above_threshold_inclusive(r) == 10 * r[1] >= 9 * r[2]

\* `ratio() > 0.9`: for texts of these lengths the double 2.0*M/T exceeds the
\* double 0.9 exactly when 2M/T > 9/10
above_threshold(r) == 10 * r[1] > 9 * r[2]

(***************************************************************************)
(* Inputs                                                                  *)
(***************************************************************************)
\* "Protest ab": keyword protest, mixed case
TextProtest == <<"P","r","o","t","e","s","t"," ","a","b">>

\* " protest ab ": the same text up to case and outer whitespace
TextProtestPadded == <<" ","p","r","o","t","e","s","t"," ","a","b"," ">>

\* "protest ax": ratio exactly 18/20 = 0.9 against 'protest ab'
TextBoundary == <<"p","r","o","t","e","s","t"," ","a","x">>

\* "protest abc": ratio 20/21 > 0.9 against 'protest ab'
TextNear == <<"p","r","o","t","e","s","t"," ","a","b","c">>

\* " abcd ": 6 characters raw, 4 once stripped
TextShort == <<" ","a","b","c","d"," ">>

\* "threat protest": holds two keywords, the later table entry first
TextBoth == <<"t","h","r","e","a","t"," ","p","r","o","t","e","s","t">>

\* "outage attack": holds the keywords outage and attack
TextOutage == <<"o","u","t","a","g","e"," ","a","t","t","a","c","k">>

\* "hello": no keyword, exactly 5 characters
TextHello == <<"h","e","l","l","o">>

Texts ==
  {TextProtest,
   TextProtestPadded,
   TextBoundary,
   TextNear,
   TextShort,
   TextBoth,
   TextOutage,
   TextHello}

\* the texts posted to the HTTP service
ApiTexts == {TextProtest, TextProtestPadded, TextNear, TextShort, TextHello}

Sources == {"OSINT"}

\* the pipeline instances (each its own sqlite connection) sharing one database file
Pipelines == {"p1", "p2"}

\* no new submission starts once the table holds this many rows
MaxEvents == 2

(***************************************************************************)
(* karkas.py: the stages as functions on the in-flight record, a Python    *)
(* dict modelled as a function whose domain is the set of keys it holds    *)
(***************************************************************************)
\* d[k] = v
dict_set(d, k, v) == [x \in (DOMAIN d) \cup {k} |-> IF x = k THEN v ELSE d[x]]

\* d.get(k, default)
dict_get(d, k, default) == IF k \in DOMAIN d THEN d[k] ELSE default

\* datetime.utcnow(): the clock is not modelled, every reading is this token
utcnow == "utcnow"

\* DataIngestion.ingest, called without keyword arguments: meta is empty
ingest(source, text) ==
  [source |-> source, text |-> strip(text), received_at |-> utcnow, meta |-> <<>>]

\* a faulty normalize: the text is trimmed but its case is kept
normalize_keep_case(record) == dict_set(record, "text", strip(record.text))

\* Normalization.normalize
normalize(record) == dict_set(record, "text", strip(lower(record.text)))

\* DeduplicationEngine._hash: sha256 of the text, taken as collision free
_hash(text) == <<"sha256", text>>

\* the table with its first two entries in the other order
CATEGORIES_threat_first ==
  << <<(<<"t","h","r","e","a","t">>), "SECURITY_ALERT">>,
     <<(<<"p","r","o","t","e","s","t">>), "CIVIL_ACTIVITY">>,
     <<(<<"o","u","t","a","g","e">>), "INFRASTRUCTURE">>,
     <<(<<"a","t","t","a","c","k">>), "CRISIS_EVENT">> >>

\* ClassificationEngine.CATEGORIES, in the insertion order dict.items() keeps
CATEGORIES ==
  << <<(<<"p","r","o","t","e","s","t">>), "CIVIL_ACTIVITY">>,
     <<(<<"t","h","r","e","a","t">>), "SECURITY_ALERT">>,
     <<(<<"o","u","t","a","g","e">>), "INFRASTRUCTURE">>,
     <<(<<"a","t","t","a","c","k">>), "CRISIS_EVENT">> >>

\* classify that leaves the record as it got it
classify_unassigned(record) == record

\* ClassificationEngine.classify
classify(record) ==
  LET hits == {i \in DOMAIN CATEGORIES : contains(CATEGORIES[i][1], record.text)}
      first == CHOOSE i \in hits : \A j \in hits : i <= j
  IN  dict_set(record, "category",
               IF hits = {} THEN "UNCLASSIFIED" ELSE CATEGORIES[first][2])

\* EnrichmentEngine.enrich
enrich(record) ==
  dict_set(record, "entities",
           [location |-> "unknown", timestamp |-> record.received_at, actors |-> <<>>])

\* AnalyticsEngine.analyze over a sequence of records: category -> count
analyze(records) ==
  LET cat(r) == dict_get(r, "category", "UNCLASSIFIED")
      keys == {cat(records[i]) : i \in DOMAIN records}
  IN  [c \in keys |-> Cardinality({i \in DOMAIN records : cat(records[i]) = c})]

(***************************************************************************)
(* karkas.py: the shared sqlite table and the pipeline instances           *)
(***************************************************************************)
VARIABLES
  events,     \* the rows of the sqlite table events, in id order
  pc,         \* pc[p]: where pipeline p stands inside process_event
  call,       \* call[p]: the arguments (source, text) of p's running call
  event,      \* event[p]: the record pipeline p holds in flight
  result      \* result[p]: what p's last process_event returned or raised

pipeline_vars == <<events, pc, call, event, result>>

(***************************************************************************)
(* api/app/main.py: the postgres table and the request handlers            *)
(***************************************************************************)
VARIABLES
  rows,       \* the rows of the postgres table events, in insertion order
  serial,     \* the last value the sequence behind id SERIAL gave out
  apc,        \* apc[h]: where request handler h stands
  request,    \* request[h]: the locals of handler h (text, ml_out, record)
  response    \* response[h]: what h's last request returned or raised

api_vars == <<rows, serial, apc, request, response>>

(***************************************************************************)
(* The functions of the two programs taken alone                           *)
(***************************************************************************)
VARIABLES
  args,       \* the texts a function is applied to
  returned    \* what the function applied last returned

fn_vars == <<args, returned>>

vars == <<pipeline_vars, api_vars, fn_vars>>

\* what a step of the pipeline leaves alone, and what a step of a handler
outside_pipeline == <<api_vars, fn_vars>>
outside_api == <<pipeline_vars, fn_vars>>

\* no call made yet
NoResult == [status |-> "none"]

\* the locals of a call that is not running
NoLocals == <<>>

\* SELECT text FROM events WHERE hash = ? ... fetchone()
select_by_hash(table, h) == {i \in DOMAIN table : table[i].hash = h}

\* a faulty scan: a row counts only when its ratio is 1.0
near_duplicate_identical_only(table, text) ==
  \E i \in DOMAIN table :
    LET r == ratio(text, table[i].text) IN r[1] = r[2]

\* the loop of is_duplicate over SELECT text FROM events
near_duplicate(table, text) ==
  \E i \in DOMAIN table : above_threshold(ratio(text, table[i].text))

\* the table created without the UNIQUE constraint
unique_ok_dropped(table, h) == TRUE

\* the UNIQUE constraint on events.hash: may a row with this hash be inserted
unique_ok(table, h) == \A i \in DOMAIN table : table[i].hash # h

\* the row INSERT INTO events (source, text, hash, received_at, meta) adds;
\* id INTEGER PRIMARY KEY takes the largest id plus one
new_row(table, record) ==
  [id |-> Len(table) + 1, source |-> record.source, text |-> record.text,
   hash |-> _hash(record.text), received_at |-> record.received_at,
   meta |-> dict_get(record, "meta", <<>>)]

\* the least length validate_and_store lets through
MinLength == 5

\* the length test off by one
too_short_off_by_one(text) == Len(text) < MinLength - 1

\* validate_and_store: len(text) < 5
too_short(text) == Len(text) < MinLength

\* process_event without the early return
after_validation_no_return(accepted) == "classify"

\* process_event: where it goes on once validate_and_store has returned
after_validation(accepted) == IF accepted THEN "classify" ELSE "done"

\* process_event, up to the call of validate_and_store
Start(p, source, text) ==
  /\ pc[p] \in {"idle", "done"}
  /\ Len(events) < MaxEvents
  /\ call' = [call EXCEPT ![p] = [source |-> source, text |-> text]]
  /\ event' = [event EXCEPT ![p] = normalize(ingest(source, text))]
  /\ result' = [result EXCEPT ![p] = NoResult]
  /\ pc' = [pc EXCEPT ![p] = "validate"]
  /\ UNCHANGED <<events, outside_pipeline>>

\* the rejection naming one cause only
rejected_as_duplicate == [status |-> "rejected", reason |-> "duplicate"]

\* the return of process_event when validate_and_store returned False
rejected == [status |-> "rejected", reason |-> "duplicate_or_invalid"]

\* validate_and_store: the length test, then the first SELECT of is_duplicate
Validate(p) ==
  /\ pc[p] = "validate"
  /\ IF too_short(event[p].text) \/ select_by_hash(events, _hash(event[p].text)) # {}
       THEN /\ result' = [result EXCEPT ![p] = rejected]
            /\ call' = [call EXCEPT ![p] = NoLocals]
            /\ event' = [event EXCEPT ![p] = NoLocals]
            /\ pc' = [pc EXCEPT ![p] = after_validation(FALSE)]
       ELSE /\ pc' = [pc EXCEPT ![p] = "scan"]
            /\ UNCHANGED <<result, call, event>>
  /\ UNCHANGED <<events, outside_pipeline>>

\* is_duplicate: the second SELECT and the similarity loop
Scan(p) ==
  /\ pc[p] = "scan"
  /\ IF near_duplicate(events, event[p].text)
       THEN /\ result' = [result EXCEPT ![p] = rejected]
            /\ call' = [call EXCEPT ![p] = NoLocals]
            /\ event' = [event EXCEPT ![p] = NoLocals]
            /\ pc' = [pc EXCEPT ![p] = after_validation(FALSE)]
       ELSE /\ pc' = [pc EXCEPT ![p] = "insert"]
            /\ UNCHANGED <<result, call, event>>
  /\ UNCHANGED <<events, outside_pipeline>>

\* a faulty INSERT: INSERT OR REPLACE, which deletes the row holding the same
\* hash instead of failing on the UNIQUE constraint
Insert_or_replace(p) ==
  /\ pc[p] = "insert"
  /\ LET kept == SelectSeq(events,
                           LAMBDA r : r.hash # _hash(event[p].text))
     IN  events' = Append(kept, new_row(events, event[p]))
  /\ pc' = [pc EXCEPT ![p] = after_validation(TRUE)]
  /\ UNCHANGED <<result, call, event>>
  /\ UNCHANGED outside_pipeline

\* validate_and_store: INSERT and commit; sqlite raises IntegrityError on a
\* hash the table already holds, nothing catches it and the program ends
Insert(p) ==
  /\ pc[p] = "insert"
  /\ IF unique_ok(events, _hash(event[p].text))
       THEN /\ events' = Append(events, new_row(events, event[p]))
            /\ pc' = [pc EXCEPT ![p] = after_validation(TRUE)]
            /\ UNCHANGED <<result, call, event>>
       ELSE /\ result' = [result EXCEPT ![p] =
                            [status |-> "raised", error |-> "IntegrityError"]]
            /\ call' = [call EXCEPT ![p] = NoLocals]
            /\ event' = [event EXCEPT ![p] = NoLocals]
            /\ pc' = [pc EXCEPT ![p] = "crashed"]
            /\ UNCHANGED events
  /\ UNCHANGED outside_pipeline

\* process_event: self.classifier.classify(event)
Classify(p) ==
  /\ pc[p] = "classify"
  /\ event' = [event EXCEPT ![p] = classify(event[p])]
  /\ pc' = [pc EXCEPT ![p] = "enrich"]
  /\ UNCHANGED <<events, call, result, outside_pipeline>>

\* process_event: self.enricher.enrich(event) and the return
Enrich(p) ==
  /\ pc[p] = "enrich"
  /\ call' = [call EXCEPT ![p] = NoLocals]
  /\ event' = [event EXCEPT ![p] = NoLocals]
  /\ result' = [result EXCEPT ![p] =
                  [status |-> "processed", event |-> enrich(event[p])]]
  /\ pc' = [pc EXCEPT ![p] = "done"]
  /\ UNCHANGED <<events, outside_pipeline>>

PipelineInit ==
  /\ events = <<>>
  /\ pc = [p \in Pipelines |-> "idle"]
  /\ call = [p \in Pipelines |-> NoLocals]
  /\ event = [p \in Pipelines |-> NoLocals]
  /\ result = [p \in Pipelines |-> NoResult]

\* may p start a call when the calls are made one after the other
others_quiet(p) == \A q \in Pipelines \ {p} : pc[q] \in {"idle", "done", "crashed"}

\* a call of process_event made while no other call is running
SeqStart(p, source, text) == others_quiet(p) /\ Start(p, source, text)

SeqNext ==
  \E p \in Pipelines :
    \/ \E s \in Sources, t \in Texts : SeqStart(p, s, t)
    \/ Validate(p)
    \/ Scan(p)
    \/ Insert(p)
    \/ Classify(p)
    \/ Enrich(p)

PipelineNext ==
  \E p \in Pipelines :
    \/ \E s \in Sources, t \in Texts : Start(p, s, t)
    \/ Validate(p)
    \/ Scan(p)
    \/ Insert(p)
    \/ Classify(p)
    \/ Enrich(p)

(***************************************************************************)
(* application.py: the rule-based classification stub behind ML_STUB       *)
(***************************************************************************)
\* classify_text; confidence in hundredths. The Cyrillic keywords are written
\* one code point per character
classify_text(text) ==
  LET t == lower(text)
      has(kw) == contains(kw, t)
  IN  IF has(<<"p","r","o","t","e","s","t">>) \/ has(<<"U+043C","U+0438","U+0442","U+0438","U+043D","U+0433">>)
        THEN [category |-> "CIVIL_ACTIVITY", confidence |-> 92]
      ELSE IF has(<<"t","h","r","e","a","t">>) \/ has(<<"a","t","t","a","c","k">>) \/ has(<<"U+0443","U+0433","U+0440","U+043E","U+0437","U+0430">>)
        THEN [category |-> "SECURITY_ALERT", confidence |-> 95]
      ELSE IF has(<<"o","u","t","a","g","e">>) \/ has(<<"p","o","w","e","r">>) \/ has(<<"U+043E","U+0442","U+043A","U+043B","U+044E","U+0447","U+0435","U+043D","U+0438","U+0435">>)
        THEN [category |-> "INFRASTRUCTURE", confidence |-> 88]
      ELSE [category |-> "UNCLASSIFIED", confidence |-> 20]

(***************************************************************************)
(* api/app/main.py                                                         *)
(***************************************************************************)
\* the request handlers that may run at the same time, each on a connection
\* of its own
Handlers == {"h1", "h2"}

\* Python's None, SQL's NULL
None == "<None>"

\* what requests.post(ML_STUB, ...) followed by r.json() can come to:
\*   stub        the stub of application.py answers
\*   unreachable the call or the decoding raises
\*   no_category a JSON object that holds no "category"
\*   not_object  JSON that is no object (a list)
\*   other_label a JSON object whose "category" is a label of its own
OracleReplies ==
  {"stub", "unreachable", "no_category", "not_object", "other_label"}

\* make_hash
make_hash(text) == <<"sha256", lower(strip(text))>>

\* check_duplicate
check_duplicate(table, text) ==
  \E i \in DOMAIN table : table[i].hash = make_hash(text)

\* the value ml_out takes in ingest for each reply of the oracle
ml_reply(reply, text) ==
  CASE reply = "stub" -> classify_text(text)
    [] reply = "unreachable" -> [category |-> "UNCLASSIFIED", confidence |-> 0]
    [] reply = "no_category" -> [detail |-> "error"]
    [] reply = "not_object" -> <<"error">>
    [] reply = "other_label" -> [category |-> "SPAM", confidence |-> 50]

\* is the decoded JSON a dict, so that ml_out.get exists
is_object(reply) == reply # "not_object"

\* the dict `record` ingest builds
make_record(source, text, ml_out) ==
  [source |-> source, text |-> text, received_at |-> utcnow,
   hash |-> make_hash(text), category |-> dict_get(ml_out, "category", None),
   provenance |-> [ml |-> ml_out]]

\* the UNIQUE constraint on events.hash of the postgres table
pg_unique_ok(table, h) == \A i \in DOMAIN table : table[i].hash # h

\* the row save_event inserts, RETURNING id
pg_row(id, record) ==
  [id |-> id, source |-> record.source, text |-> record.text,
   hash |-> record.hash, category |-> record.category,
   provenance |-> record.provenance]

\* SELECT category, count(*) FROM events GROUP BY category: the groups
group_by_category(table) ==
  {<<c, Cardinality({i \in DOMAIN table : table[i].category = c})>> :
     c \in {table[i].category : i \in DOMAIN table}}

\* `r[0] or "UNCLASSIFIED"`: None and the empty string are falsy
summary_key(c) == IF c = None \/ c = "" THEN "UNCLASSIFIED" ELSE c

\* analytics_summary: every dict the comprehension can build; of two groups
\* with one key the one fetched last stays, and the order of the groups of a
\* GROUP BY is not fixed
analytics_summary(table) ==
  LET groups == group_by_category(table)
      keys == {summary_key(g[1]) : g \in groups}
      counts(k) == {g[2] : g \in {x \in groups : summary_key(x[1]) = k}}
  IN  {f \in [keys -> 0..Len(table)] : \A k \in keys : f[k] \in counts(k)}

\* POST /ingest up to the length test
ApiStart(h, source, text) ==
  /\ apc[h] \in {"idle", "done"}
  /\ Len(rows) < MaxEvents
  /\ IF Len(strip(text)) < 5
       THEN /\ response' = [response EXCEPT ![h] =
                              [status |-> "raised", error |-> "HTTPException",
                               code |-> 400, detail |-> "Text too short"]]
            /\ request' = [request EXCEPT ![h] = NoLocals]
            /\ apc' = [apc EXCEPT ![h] = "done"]
       ELSE /\ response' = [response EXCEPT ![h] = NoResult]
            /\ request' = [request EXCEPT ![h] =
                             [source |-> source, text |-> strip(text)]]
            /\ apc' = [apc EXCEPT ![h] = "check"]
  /\ UNCHANGED <<rows, serial, outside_api>>

\* ingest: check_duplicate(text)
ApiCheck(h) ==
  /\ apc[h] = "check"
  /\ IF check_duplicate(rows, request[h].text)
       THEN /\ response' = [response EXCEPT ![h] =
                              [status |-> "rejected", reason |-> "duplicate"]]
            /\ request' = [request EXCEPT ![h] = NoLocals]
            /\ apc' = [apc EXCEPT ![h] = "done"]
       ELSE /\ apc' = [apc EXCEPT ![h] = "classify"]
            /\ UNCHANGED <<response, request>>
  /\ UNCHANGED <<rows, serial, outside_api>>

\* ingest: the call of the oracle and the building of record;
\* ml_out.get raises AttributeError when ml_out is no dict
ApiClassify(h, reply) ==
  /\ apc[h] = "classify"
  /\ IF is_object(reply)
       THEN /\ request' = [request EXCEPT ![h] =
                             make_record(request[h].source, request[h].text,
                                         ml_reply(reply, request[h].text))]
            /\ apc' = [apc EXCEPT ![h] = "save"]
            /\ UNCHANGED response
       ELSE /\ response' = [response EXCEPT ![h] =
                              [status |-> "raised", error |-> "AttributeError"]]
            /\ request' = [request EXCEPT ![h] = NoLocals]
            /\ apc' = [apc EXCEPT ![h] = "done"]
  /\ UNCHANGED <<rows, serial, outside_api>>

\* ingest: save_event(record) and the return; the sequence moves on also when
\* the INSERT fails on the UNIQUE constraint, and nothing catches that error
ApiSave(h) ==
  /\ apc[h] = "save"
  /\ serial' = serial + 1
  /\ IF pg_unique_ok(rows, request[h].hash)
       THEN /\ rows' = Append(rows, pg_row(serial + 1, request[h]))
            /\ response' = [response EXCEPT ![h] =
                              [status |-> "accepted", id |-> serial + 1,
                               category |-> request[h].category]]
       ELSE /\ response' = [response EXCEPT ![h] =
                              [status |-> "raised", error |-> "UniqueViolation"]]
            /\ UNCHANGED rows
  /\ request' = [request EXCEPT ![h] = NoLocals]
  /\ apc' = [apc EXCEPT ![h] = "done"]
  /\ UNCHANGED outside_api

\* GET /analytics/summary
ApiSummary(h) ==
  /\ apc[h] \in {"idle", "done"}
  /\ \E f \in analytics_summary(rows) :
       response' = [response EXCEPT ![h] = [status |-> "summary", counts |-> f]]
  /\ apc' = [apc EXCEPT ![h] = "done"]
  /\ UNCHANGED <<rows, serial, request, outside_api>>

ApiInit ==
  /\ rows = <<>>
  /\ serial = 0
  /\ apc = [h \in Handlers |-> "idle"]
  /\ request = [h \in Handlers |-> NoLocals]
  /\ response = [h \in Handlers |-> NoResult]

ApiNext ==
  \E h \in Handlers :
    \/ \E s \in Sources, t \in ApiTexts : ApiStart(h, s, t)
    \/ ApiCheck(h)
    \/ \E reply \in OracleReplies : ApiClassify(h, reply)
    \/ ApiSave(h)
    \/ ApiSummary(h)

(***************************************************************************)
(* The example run of karkas.py                                            *)
(***************************************************************************)
\* "Peaceful protest observed in Almaty"
ExampleProtest ==
  <<"P", "e", "a", "c", "e", "f", "u", "l", " ", "p", "r", "o", "t", "e",
    "s", "t", " ", "o", "b", "s", "e", "r", "v", "e", "d", " ", "i", "n",
    " ", "A", "l", "m", "a", "t", "y">>

\* "Power outage detected in north sector"
ExampleOutage ==
  <<"P", "o", "w", "e", "r", " ", "o", "u", "t", "a", "g", "e", " ", "d",
    "e", "t", "e", "c", "t", "e", "d", " ", "i", "n", " ", "n", "o", "r",
    "t", "h", " ", "s", "e", "c", "t", "o", "r">>

\* "Threat detected near border checkpoint"
ExampleThreat ==
  <<"T", "h", "r", "e", "a", "t", " ", "d", "e", "t", "e", "c", "t", "e",
    "d", " ", "n", "e", "a", "r", " ", "b", "o", "r", "d", "e", "r", " ",
    "c", "h", "e", "c", "k", "p", "o", "i", "n", "t">>

\* "Protest gathering planned tomorrow"
ExampleGathering ==
  <<"P", "r", "o", "t", "e", "s", "t", " ", "g", "a", "t", "h", "e", "r",
    "i", "n", "g", " ", "p", "l", "a", "n", "n", "e", "d", " ", "t", "o",
    "m", "o", "r", "r", "o", "w">>

\* the list `examples` of the example run
examples ==
  {<<"OSINT", ExampleProtest>>, <<"SENSOR", ExampleOutage>>,
   <<"API", ExampleThreat>>, <<"NEWS", ExampleGathering>>}

\* analyze_all: a placeholder that reads nothing and returns a fixed dict
analyze_all == [status |-> "analytics_ready"]

\* a call of analyze_all made while no call is running
AnalyzeAll(p) ==
  /\ pc[p] \in {"idle", "done"}
  /\ others_quiet(p)
  /\ result' = [result EXCEPT ![p] = analyze_all]
  /\ pc' = [pc EXCEPT ![p] = "done"]
  /\ UNCHANGED <<events, call, event, outside_pipeline>>

\* the calls the example run makes, one after the other, in any order and
\* number
ExampleNext ==
  \E p \in Pipelines :
    \/ \E e \in examples : SeqStart(p, e[1], e[2])
    \/ Validate(p)
    \/ Scan(p)
    \/ Insert(p)
    \/ Classify(p)
    \/ Enrich(p)
    \/ AnalyzeAll(p)

(***************************************************************************)
(* Applying the functions to given texts                                   *)
(***************************************************************************)
\* the longest text given to a function, apart from the two below
MaxLen == 3

\* a lower-case letter, an upper-case letter and a blank
Alphabet == {"a", "B", " "}

\* the texts over Alphabet of at most n characters
Strings(n) == UNION {[1..k -> Alphabet] : k \in 0..n}

\* two texts of 11 characters, each one transposition away from the other
TextSwapA == <<"a","a","a","a","a","b","a","b","a","a","b">>
TextSwapB == <<"a","a","a","a","a","b","a","a","b","a","b">>

\* the pairs of texts the functions are applied to
ArgPairs ==
  (Strings(MaxLen) \X Strings(MaxLen))
    \cup {<<TextSwapA, TextSwapB>>, <<TextSwapB, TextSwapA>>}

\* no function applied
FnIdle == args = <<>> /\ returned = NoResult

FnInit ==
  /\ PipelineInit
  /\ ApiInit
  /\ args \in ArgPairs
  /\ returned = NoResult

\* Normalization.normalize applied to a record of the first text, and applied
\* again to what it returned
ApplyNormalize ==
  /\ returned' = [op |-> "normalize",
                  once |-> normalize([text |-> args[1]]),
                  twice |-> normalize(normalize([text |-> args[1]]))]
  /\ UNCHANGED <<args, pipeline_vars, api_vars>>

\* make_hash applied to the first text, and applied again to the text it
\* digested
ApplyMakeHash ==
  /\ returned' = [op |-> "make_hash",
                  once |-> make_hash(args[1]),
                  twice |-> make_hash(make_hash(args[1])[2])]
  /\ UNCHANGED <<args, pipeline_vars, api_vars>>

\* SequenceMatcher(None, a, b).ratio() applied to the two texts in both
\* orders and to each text with itself, with the verdicts of is_duplicate
ApplyRatio ==
  /\ returned' = [op |-> "ratio",
                  ab |-> ratio(args[1], args[2]),
                  ba |-> ratio(args[2], args[1]),
                  aa |-> ratio(args[1], args[1]),
                  near_ab |-> above_threshold(ratio(args[1], args[2])),
                  near_ba |-> above_threshold(ratio(args[2], args[1]))]
  /\ UNCHANGED <<args, pipeline_vars, api_vars>>

FnNext == ApplyNormalize \/ ApplyMakeHash \/ ApplyRatio

(***************************************************************************)
(* Specifications                                                          *)
(***************************************************************************)
Init == PipelineInit /\ ApiInit /\ FnIdle

Next == PipelineNext

\* pipeline instances of karkas.py running concurrently on one database file
Spec == Init /\ [][Next]_vars

\* the calls of process_event made one after the other, as the example run of
\* karkas.py makes them
SeqSpec == Init /\ [][SeqNext]_vars

\* request handlers of api/app/main.py running concurrently on one database
ApiSpec == Init /\ [][ApiNext]_vars

\* the functions of the two programs applied to given texts
FnSpec == FnInit /\ [][FnNext]_vars

\* one pipeline object of karkas.py fed the texts of its example run
ExampleSpec == Init /\ [][ExampleNext]_vars

(***************************************************************************)
(* Properties                                                              *)
(***************************************************************************)
\* the text a submission of raw text t is stored under by the pipeline
stored_form(t) == strip(lower(strip(t)))

\* the stages of validate_and_store
InValidation == {"validate", "scan", "insert"}

\* the step by which p's validate_and_store returns or raises
Decides(p) == pc[p] \in InValidation /\ pc'[p] \notin InValidation

\* the conditions of acceptance, on the table as the call finds it
Acceptable(table, text) ==
  /\ Len(text) >= 5
  /\ \A i \in DOMAIN table : table[i].hash # <<"sha256", text>>
  /\ \A i \in DOMAIN table :
       LET r == ratio(text, table[i].text) IN ~(10 * r[1] > 9 * r[2])

\* C1: with the calls made one after the other, validate_and_store accepts
\* (goes on to classification, having appended exactly the candidate's row)
\* exactly when the normalized text has at least 5 characters, its
\* fingerprint is not in the table and no stored text has a ratio above 0.9
\* against it (a ratio of exactly 0.9 does not reject); otherwise it returns
\* false (process_event returns rejected) and the table stays as it was.
C1_ValidateAndStoreContract ==
  [][\A p \in Pipelines :
       Decides(p) =>
         IF Acceptable(events, event[p].text)
           THEN /\ pc'[p] = "classify"
                /\ Len(events') = Len(events) + 1
                /\ SubSeq(events', 1, Len(events)) = events
                /\ events'[Len(events')].text = event[p].text
                /\ events'[Len(events')].hash = <<"sha256", event[p].text>>
           ELSE /\ result'[p].status = "rejected"
                /\ events' = events]_vars

\* C1 witness: "protest ax", whose ratio against the stored "protest ab" is
\* exactly 0.9, was accepted after it
C1_BoundaryAccepted ==
  \E i, j \in DOMAIN events :
    /\ i < j
    /\ events[i].text = stored_form(TextProtest)
    /\ events[j].text = stored_form(TextBoundary)
    /\ LET r == ratio(events[j].text, events[i].text) IN 10 * r[1] = 9 * r[2]

\* C2: in every reachable state, whatever the interleaving of the
\* submissions, no two rows of a table share a fingerprint.
C2_FingerprintsUnique ==
  /\ \A i, j \in DOMAIN events : i # j => events[i].hash # events[j].hash
  /\ \A i, j \in DOMAIN rows : i # j => rows[i].hash # rows[j].hash

\* C2 witness: two pipelines raced on one text, one committed it and the
\* INSERT of the other hit the UNIQUE constraint
C2_RaceLost ==
  \E p \in Pipelines :
    /\ result[p].status = "raised"
    /\ Len(events) >= 1

\* p is about to validate a text and the table holds the row of an accepted
\* submission of the same text
Resubmitted(p) ==
  /\ pc[p] = "validate"
  /\ \E i \in DOMAIN events : events[i].text = stored_form(call[p].text)

\* C3 as amended: once a submission of a text was accepted, a later call of
\* process_event with the same text returns status rejected with the reason
\* duplicate_or_invalid and adds no row.
C3_ResubmissionRejected ==
  [][\A p \in Pipelines :
       (Resubmitted(p) /\ pc'[p] # pc[p]) =>
         /\ result'[p] = [status |-> "rejected", reason |-> "duplicate_or_invalid"]
         /\ pc'[p] = "done"
         /\ events' = events]_vars

\* C3 as stated: the later submission is rejected with the reason duplicate.
C3_ResubmissionRejectedAsDuplicate ==
  [][\A p \in Pipelines :
       (Resubmitted(p) /\ pc'[p] # pc[p]) =>
         /\ result'[p].status = "rejected"
         /\ result'[p].reason = "duplicate"
         /\ events' = events]_vars

\* C3 witness: "Protest ab" is stored and a pipeline starts on it again
C3_Resubmission ==
  \E p \in Pipelines :
    /\ Resubmitted(p)
    /\ call[p].text = TextProtest
    /\ Len(events) = 1

\* C4: a text shorter than 5 characters once normalized is rejected and no
\* row ever holds such a text, whatever the table holds.
C4_ShortTextRejected ==
  [][/\ \A i \in DOMAIN events' : Len(events'[i].text) >= 5
     /\ \A p \in Pipelines :
          (/\ pc[p] = "validate"
           /\ Len(stored_form(call[p].text)) < 5
           /\ pc'[p] # pc[p]) =>
            /\ result'[p].status = "rejected"
            /\ pc'[p] = "done"
            /\ events' = events]_vars

\* C4 witness: a call was rejected on the empty table, where nothing can be
\* a duplicate
C4_ShortRejectedOnEmptyStore ==
  \E p \in Pipelines :
    /\ pc[p] = "done"
    /\ result[p].status = "rejected"
    /\ events = <<>>

\* C5 as stated: two pipelines never both pass validation with texts that
\* are identical or near-identical (ratio above 0.9) while both are in flight.
C5_AtMostOnePassesValidation ==
  \A p, q \in Pipelines :
    (/\ p # q
     /\ pc[p] \in {"classify", "enrich"}
     /\ pc[q] \in {"classify", "enrich"}) =>
      LET r == ratio(event[p].text, event[q].text) IN ~(10 * r[1] > 9 * r[2])

\* C6 as stated: a submission that loses the race for a fingerprint ends
\* rejected, never with an error raised to the caller.
C6_ConflictIsRejection ==
  \A p \in Pipelines :
    /\ result[p].status # "raised"
    /\ pc[p] # "crashed"

\* C7: a call that is rejected is rejected inside validate_and_store, with a
\* record that was never classified nor enriched and with the table left as
\* it was; process_event returns status rejected without an event, and the
\* call is over.
C7_RejectionTerminal ==
  [][\A p \in Pipelines :
       /\ (result'[p].status = "rejected" /\ result[p].status # "rejected") =>
            /\ pc[p] \in InValidation
            /\ "category" \notin DOMAIN event[p]
            /\ "entities" \notin DOMAIN event[p]
            /\ "event" \notin DOMAIN result'[p]
            /\ events' = events
            /\ pc'[p] = "done"
       /\ (result[p].status = "rejected" /\ pc'[p] # pc[p]) =>
            /\ pc[p] = "done"
            /\ pc'[p] = "validate"]_vars

\* C7 witness: a call has ended rejected while the table holds "protest ab"
\* and no row for its near-duplicate "protest abc"
C7_CallEndedRejected ==
  \E p \in Pipelines :
    /\ pc[p] = "done"
    /\ result[p].status = "rejected"
    /\ \E i \in DOMAIN events : events[i].text = stored_form(TextProtest)
    /\ \A i \in DOMAIN events : events[i].text # stored_form(TextNear)

\* C8 as stated: a row is inserted only for a record that was classified and
\* enriched before, and the row carries the category.
C8_StoredAfterEnrichment ==
  [][events' # events =>
       /\ \E p \in Pipelines :
            /\ pc'[p] # pc[p]
            /\ "category" \in DOMAIN event[p]
            /\ "entities" \in DOMAIN event[p]
       /\ "category" \in DOMAIN events'[Len(events')]]_vars

\* the table holds a row for this in-flight record
Persisted(table, record) == \E i \in DOMAIN table : table[i].text = record.text

\* C8 as amended: for every accepted event the stages occur in the order
\* Normalized, Validated and Stored, Classified, Enriched: validate_and_store
\* inserts the row of the normalized, not yet classified record, the record
\* is classified and then enriched with its row already in the table, and
\* the category is carried by the returned event, never by the stored row.
C8_StoredBeforeClassified ==
  [][/\ \A i \in DOMAIN events' : "category" \notin DOMAIN events'[i]
     /\ events' # events =>
          \E p \in Pipelines :
            /\ pc[p] = "insert" /\ pc'[p] = "classify"
            /\ event[p].text = stored_form(call[p].text)
            /\ "category" \notin DOMAIN event[p]
            /\ "entities" \notin DOMAIN event[p]
            /\ events' = Append(events, events'[Len(events')])
            /\ events'[Len(events')].text = event[p].text
     /\ \A p \in Pipelines :
          /\ (pc'[p] = "classify" /\ pc[p] # "classify") => pc[p] = "insert"
          /\ (pc'[p] = "enrich" /\ pc[p] # "enrich") =>
               /\ pc[p] = "classify"
               /\ Persisted(events, event[p])
               /\ "category" \in DOMAIN event'[p]
               /\ "entities" \notin DOMAIN event'[p]
          /\ (result'[p].status = "processed" /\ result[p].status # "processed") =>
               /\ pc[p] = "enrich"
               /\ Persisted(events, event[p])
               /\ "category" \in DOMAIN result'[p].event
               /\ "entities" \in DOMAIN result'[p].event]_vars

\* C8 witness: a call returned processed with a category while the row of
\* its event, stored before, carries none
C8_ProcessedRowWithoutCategory ==
  \E p \in Pipelines :
    /\ result[p].status = "processed"
    /\ result[p].event.category = "CIVIL_ACTIVITY"
    /\ \E i \in DOMAIN events :
         /\ events[i].text = result[p].event.text
         /\ "category" \notin DOMAIN events[i]

\* the category of the first keyword, in the order protest, threat, outage,
\* attack, that lower-cased text t holds
TableOrderCategory(t) ==
  IF contains(<<"p","r","o","t","e","s","t">>, t) THEN "CIVIL_ACTIVITY"
  ELSE IF contains(<<"t","h","r","e","a","t">>, t) THEN "SECURITY_ALERT"
  ELSE IF contains(<<"o","u","t","a","g","e">>, t) THEN "INFRASTRUCTURE"
  ELSE IF contains(<<"a","t","t","a","c","k">>, t) THEN "CRISIS_EVENT"
  ELSE "UNCLASSIFIED"

\* C9: the category classify assigns is that of the first table entry, in
\* the order protest, threat, outage, attack, whose keyword is a substring of
\* the submitted text taken in lower case; a text that holds both protest and
\* threat gets CIVIL_ACTIVITY and a text that holds no keyword UNCLASSIFIED.
C9_FirstTableEntryWins ==
  \A p \in Pipelines :
    /\ pc[p] = "enrich" =>
         /\ event[p].category = TableOrderCategory(lower(call[p].text))
         /\ call[p].text = TextBoth => event[p].category = "CIVIL_ACTIVITY"
         /\ call[p].text = TextHello => event[p].category = "UNCLASSIFIED"
    /\ result[p].status = "processed" =>
         result[p].event.category = TableOrderCategory(result[p].event.text)

\* C9 witness: "threat protest" has been classified, and "Protest ab", whose
\* keyword is capitalised, has been too
C9_BothKeywordsClassified ==
  \E p, q \in Pipelines :
    /\ pc[p] = "enrich"
    /\ call[p].text = TextBoth
    /\ event[p].category = "CIVIL_ACTIVITY"
    /\ result[q].status = "processed"
    /\ result[q].event.text = stored_form(TextProtest)
    /\ result[q].event.category = "CIVIL_ACTIVITY"

RECURSIVE sum_counts(_)
\* the sum of the counts of a summary
sum_counts(f) ==
  IF DOMAIN f = {} THEN 0
  ELSE LET k == CHOOSE x \in DOMAIN f : TRUE
       IN  f[k] + sum_counts([x \in (DOMAIN f) \ {k} |-> f[x]])

\* C10 as stated: whatever summary GET /analytics/summary can return, its
\* counts sum to the number of stored events, the events without a category
\* being counted under UNCLASSIFIED together with those labelled so.
C10_SummaryCountsEveryEvent ==
  \A f \in analytics_summary(rows) :
    /\ sum_counts(f) = Len(rows)
    /\ "UNCLASSIFIED" \in DOMAIN f =>
         f["UNCLASSIFIED"] =
           Cardinality({i \in DOMAIN rows :
                          rows[i].category \in {None, "", "UNCLASSIFIED"}})

\* the counts of summary g are at least those of summary f, category by
\* category
counts_not_below(f, g) ==
  \A k \in DOMAIN f : k \in DOMAIN g /\ g[k] >= f[k]

\* C11 as stated: when GET /analytics/summary answers, no category's count is
\* below the count that an earlier answer, still held by either handler, gave
\* for it; the store has only gained accepted events in between.
C11_SummaryCountsNeverDecrease ==
  [][\A h, g \in Handlers :
       ( /\ response'[h].status = "summary"
         /\ response'[h] # response[h]
         /\ response[g].status = "summary" )
       => counts_not_below(response[g].counts, response'[h].counts)]_vars

\* the answer a working oracle gives: a JSON object with a category and a
\* confidence
well_formed(ml_out) == DOMAIN ml_out = {"category", "confidence"}

\* C12 as stated: whatever the oracle does when ingest calls it, ingest goes
\* on to store the event and raises nothing; unless the oracle gave a
\* well-formed answer, the event is stored with category UNCLASSIFIED and
\* confidence 0.
C12_OracleFailureFallsBack ==
  [][\A h \in Handlers :
       (apc[h] = "classify" /\ apc'[h] # "classify")
       => /\ apc'[h] = "save"
          /\ LET ml_out == request'[h].provenance.ml
             IN  \/ well_formed(ml_out)
                 \/ /\ request'[h].category = "UNCLASSIFIED"
                    /\ dict_get(ml_out, "confidence", None) = 0]_vars

\* C13 as stated: a call that ends because the text is too short or a
\* duplicate ends with a returned value of status rejected that carries a
\* reason, in process_event and in POST /ingest alike; none ends with the
\* exception that ingest raises for a short text.
C13_BusinessOutcomesAreValues ==
  /\ \A p \in Pipelines :
       result[p].status = "rejected" => "reason" \in DOMAIN result[p]
  /\ \A h \in Handlers :
       /\ response[h].status = "rejected" => "reason" \in DOMAIN response[h]
       /\ ~ ( /\ response[h].status = "raised"
              /\ response[h].error = "HTTPException" )

\* the label set of the specification
Labels ==
  {"CIVIL_ACTIVITY", "SECURITY_ALERT", "INFRASTRUCTURE", "CRISIS_EVENT",
   "UNCLASSIFIED"}

\* the category a dict holds, if it holds one
held_categories(d) ==
  IF "category" \in DOMAIN d /\ d["category"] # None
    THEN {d["category"]} ELSE {}

\* C14 as stated: the category of every event in flight (in process_event or
\* in ingest), of every returned event and of every stored row is one of the
\* five labels, whether ClassificationEngine.classify or the oracle gave it.
C14_CategoryInLabelSet ==
  /\ \A p \in Pipelines :
       /\ held_categories(event[p]) \subseteq Labels
       /\ result[p].status = "processed" =>
            held_categories(result[p].event) \subseteq Labels
  /\ \A h \in Handlers : held_categories(request[h]) \subseteq Labels
  /\ \A i \in DOMAIN rows : held_categories(rows[i]) \subseteq Labels

\* does the table hold the row of the Almaty text and no other
only_protest(table) ==
  Len(table) = 1 /\ table[1].text = stored_form(ExampleProtest)

\* does the table hold the rows of the Almaty text and of the power-outage
\* text
protest_and_outage(table) ==
  /\ Len(table) = 2
  /\ table[1].text = stored_form(ExampleProtest)
  /\ table[2].text = stored_form(ExampleOutage)

\* the step by which p's call of process_event returns a processed event
ReturnsProcessed(p) == pc[p] = "enrich" /\ pc'[p] = "done"

\* the scenario of C15 up to the summary: the Almaty text is accepted from the
\* empty store and returned with CIVIL_ACTIVITY, its resubmission is rejected
\* with the given reason, the power-outage text is accepted next and returned
\* with INFRASTRUCTURE
scenario_ingestions(reason) ==
  \A p \in Pipelines :
    /\ (Decides(p) /\ call[p].text = ExampleProtest /\ events = <<>>)
       => pc'[p] = "classify" /\ only_protest(events')
    /\ (ReturnsProcessed(p) /\ call[p].text = ExampleProtest)
       => /\ result'[p].status = "processed"
          /\ result'[p].event.category = "CIVIL_ACTIVITY"
    /\ (Decides(p) /\ call[p].text = ExampleProtest /\ only_protest(events))
       => /\ result'[p] = [status |-> "rejected", reason |-> reason]
          /\ events' = events
    /\ (Decides(p) /\ call[p].text = ExampleOutage /\ only_protest(events))
       => pc'[p] = "classify" /\ protest_and_outage(events')
    /\ (ReturnsProcessed(p) /\ call[p].text = ExampleOutage)
       => /\ result'[p].status = "processed"
          /\ result'[p].event.category = "INFRASTRUCTURE"

\* the summary the scenario expects
scenario_summary == ("CIVIL_ACTIVITY" :> 1) @@ ("INFRASTRUCTURE" :> 1)

\* C15 as stated: the scenario's ingestions, the resubmission being rejected
\* with reason duplicate, and analyze_all, called once the two events are
\* stored, returns exactly {CIVIL_ACTIVITY: 1, INFRASTRUCTURE: 1}.
C15_ScenarioAsStated ==
  [][ /\ scenario_ingestions("duplicate")
      /\ \A p \in Pipelines :
           (AnalyzeAll(p) /\ protest_and_outage(events))
           => result'[p] = scenario_summary ]_vars

\* C15 as amended: the scenario's ingestions, the resubmission being rejected
\* with reason duplicate_or_invalid; analyze_all, called once the two events
\* are stored, returns {status: analytics_ready} and no counts, and
\* AnalyticsEngine.analyze applied to the two returned events gives exactly
\* {CIVIL_ACTIVITY: 1, INFRASTRUCTURE: 1}.
C15_ScenarioOfPipeline ==
  [][ /\ scenario_ingestions("duplicate_or_invalid")
      /\ \A p \in Pipelines :
           (AnalyzeAll(p) /\ protest_and_outage(events))
           => result'[p] = [status |-> "analytics_ready"]
      /\ \A p, q \in Pipelines :
           ( /\ result[p].status = "processed"
             /\ result[p].event.text = stored_form(ExampleProtest)
             /\ result[q].status = "processed"
             /\ result[q].event.text = stored_form(ExampleOutage) )
           => analyze(<<result[p].event, result[q].event>>) = scenario_summary
    ]_vars

\* C15 witness: the two events are stored, the power-outage text was returned
\* as INFRASTRUCTURE and analyze_all has answered
C15_ScenarioPlayed ==
  /\ protest_and_outage(events)
  /\ \E p, q \in Pipelines :
       /\ result[p].status = "processed"
       /\ result[p].event.text = stored_form(ExampleOutage)
       /\ result[p].event.category = "INFRASTRUCTURE"
       /\ result[q] = analyze_all

\* table `after` holds every row of table `before`, unchanged and in place
extends(before, after) ==
  /\ Len(after) >= Len(before)
  /\ SubSeq(after, 1, Len(before)) = before

\* C16: no step of process_event (and none of the HTTP service) removes a
\* stored event or changes a field of one: after every step each table holds
\* all the rows it held before, unchanged, and possibly more.
C16_StoreOnlyGrows ==
  [][extends(events, events') /\ extends(rows, rows')]_vars

\* C16 witness: two events are stored, the second by a call that has returned
\* it, and one more call has ended without storing
C16_StoreGrewAndCallsFailed ==
  /\ Len(events) = 2
  /\ \E p, q \in Pipelines :
       /\ result[p].status \in {"rejected", "raised"}
       /\ result[q].status = "processed"
       /\ result[q].event.text = events[2].text

\* has the function named op been applied last
applied(op) == "op" \in DOMAIN returned /\ returned.op = op

\* is the text trimmed and in lower case
is_normal(t) ==
  /\ t # <<>> => t[1] \notin Whitespace /\ t[Len(t)] \notin Whitespace
  /\ \A i \in DOMAIN t : \A j \in DOMAIN Uppercase : t[i] # Uppercase[j]

\* C17: Normalization.normalize applied to what it returned returns the same
\* record, and the text it returns is trimmed and in lower case; the same
\* holds of the normalization inside make_hash, whose digest of the text it
\* digested is the same digest.
C17_NormalizeIdempotent ==
  /\ applied("normalize") =>
       /\ returned.twice = returned.once
       /\ is_normal(returned.once.text)
  /\ applied("make_hash") =>
       /\ returned.twice = returned.once
       /\ is_normal(returned.once[2])

\* C17 witness: normalize was applied to " Ba", which it changes to "ba"
C17_NormalizedPaddedCapital ==
  /\ applied("normalize")
  /\ args[1] = <<" ", "B", "a">>
  /\ returned.once.text = <<"b", "a">>

\* the characters of a text
chars(t) == {t[i] : i \in DOMAIN t}

\* the fractions 1.0 and 0.0
is_one(r) == r[1] = r[2]
is_zero(r) == r[1] = 0

\* what C18 says of identical texts and of texts without a common character
ratio_at_extremes ==
  /\ is_one(returned.aa)
  /\ args[1] = args[2] => is_one(returned.ab) /\ is_one(returned.ba)
  /\ (chars(args[1]) \cap chars(args[2]) = {} /\ args[1] \o args[2] # <<>>)
     => is_zero(returned.ab) /\ is_zero(returned.ba)

\* C18 as stated: ratio(a, b) = ratio(b, a), the ratio of identical texts is 1
\* and that of texts without a common character is 0, and the verdict
\* ratio > 0.9 of is_duplicate is the same for (a, b) and for (b, a).
C18_RatioSymmetric ==
  applied("ratio") =>
    /\ returned.ab = returned.ba
    /\ ratio_at_extremes
    /\ returned.near_ab = returned.near_ba

\* C18 as amended: the ratio of identical texts is 1 and that of texts without
\* a common character is 0, in either order; ratio(a, b) and ratio(b, a) are
\* fractions of the same denominator len(a) + len(b), between 0 and 1 (their
\* numerators can differ).
C18_RatioAtExtremes ==
  applied("ratio") =>
    /\ ratio_at_extremes
    /\ returned.ab[2] = returned.ba[2]
    /\ \A r \in {returned.ab, returned.ba} : 0 <= r[1] /\ r[1] <= r[2]

\* C18 witness: the ratio was applied to two texts of which it finds the first
\* a near-duplicate of the second (20/22) and the second none of the first
\* (18/22)
C18_VerdictDependsOnOrder ==
  /\ applied("ratio")
  /\ returned.ab = <<20, 22>>
  /\ returned.ba = <<18, 22>>
  /\ returned.near_ab
  /\ ~returned.near_ba

\* do two texts differ at most in letter case and in outer whitespace
same_up_to_case_and_padding(t, u) == lower(strip(t)) = lower(strip(u))

\* is a call of process_event running in p
running(p) == pc[p] \notin {"idle", "done", "crashed"}

\* C19: two running calls whose texts differ only in letter case or in outer
\* whitespace hold events of the same fingerprint, which is also what
\* make_hash gives the two texts; and a call of process_event whose text
\* differs only so from a stored text finds its own fingerprint in the store
\* and is rejected by the lookup of the hash, before any similarity is
\* computed, leaving the store as it was.
C19_VariantsShareFingerprint ==
  [][ /\ \A p, q \in Pipelines :
           ( /\ running(p)
             /\ running(q)
             /\ same_up_to_case_and_padding(call[p].text, call[q].text) )
           => /\ _hash(event[p].text) = _hash(event[q].text)
              /\ make_hash(call[p].text) = make_hash(call[q].text)
      /\ \A p \in Pipelines :
           ( /\ pc[p] = "validate"
             /\ pc'[p] # "validate"
             /\ \E i \in DOMAIN events :
                  same_up_to_case_and_padding(events[i].text, call[p].text) )
           => /\ \E i \in DOMAIN events :
                   events[i].hash = _hash(event[p].text)
              /\ pc'[p] = "done"
              /\ result'[p].status = "rejected"
              /\ events' = events ]_vars

\* C19 witness: "Protest ab" was accepted and returned, its row is stored, and
\* a call with " protest ab " is about to look its fingerprint up
C19_VariantSubmitted ==
  \E p, q \in Pipelines :
    /\ result[q].status = "processed"
    /\ result[q].event.text = stored_form(TextProtest)
    /\ \E i \in DOMAIN events : events[i].text = stored_form(TextProtest)
    /\ pc[p] = "validate"
    /\ call[p].text = TextProtestPadded

\* C20: with the calls made one after the other, for any two stored events
\* the ratio of the text stored later against the text stored earlier, which
\* is the order is_duplicate gives SequenceMatcher its arguments in, is at
\* most 0.9.
C20_NoStoredNearDuplicates ==
  \A i, j \in DOMAIN events :
    i < j => ~above_threshold(ratio(events[j].text, events[i].text))

\* C20 witness: "protest ab" is stored, a later similar text ("protest ax",
\* ratio 18/20) was stored after it, and a call has been rejected
C20_SimilarButStored ==
  /\ Len(events) >= 2
  /\ \E i, j \in DOMAIN events :
       /\ i < j
       /\ events[i].text = stored_form(TextProtest)
       /\ ratio(events[j].text, events[i].text) = <<18, 20>>
  /\ \E p \in Pipelines : result[p].status = "rejected"

\* the step is one of p's call of process_event
Moves(p) == pc'[p] # pc[p]

\* the step appends to the store exactly the row of the event p holds
AddsOwnRow(p) ==
  /\ Len(events') = Len(events) + 1
  /\ SubSeq(events', 1, Len(events)) = events
  /\ events'[Len(events')].text = event[p].text
  /\ events'[Len(events')].hash = _hash(event[p].text)

\* C21 as stated, step by step of a call of process_event: the store changes
\* only by the call's one INSERT, which appends exactly the row of the
\* candidate's normalized text and fingerprint, and only a call that made it
\* goes on to return status processed, for an event that is stored; a call
\* that ends without having added a row returns status rejected.
C21_ProcessedIffAddedOne ==
  [][\A p \in Pipelines :
       Moves(p) =>
         /\ events' # events =>
              pc[p] = "insert" /\ pc'[p] = "classify" /\ AddsOwnRow(p)
         /\ pc'[p] = "classify" => pc[p] = "insert" /\ events' # events
         /\ (pc[p] = "enrich" /\ pc'[p] = "done") =>
              /\ result'[p].status = "processed"
              /\ \E i \in DOMAIN events :
                   /\ events[i].text = result'[p].event.text
                   /\ events[i].hash = _hash(result'[p].event.text)
         /\ result'[p].status = "processed" => pc[p] = "enrich"
         /\ (pc[p] \in InValidation /\ pc'[p] \notin {"scan", "insert"}
               /\ events' = events) =>
              /\ pc'[p] = "done"
              /\ result'[p] = rejected]_vars

====
